---- MODULE Spec2Model ----
(***************************************************************************)
(* A model of translateExcel (src/app.py): the pipeline that copies one    *)
(* sheet of a workbook into a destination sheet, sending its translatable  *)
(* cells to the translation backend in batches.                            *)
(*                                                                         *)
(* A string is a sequence of characters (one-character strings).  The      *)
(* newline is the character NL and the eleven characters "---SPLIT---" of  *)
(* the separator are the single token MARK, so the separator               *)
(* "\n---SPLIT---\n" is the three-token sequence SEP.                      *)
(*                                                                         *)
(* The sheet tasks of process_excel share no mutable state (each writes    *)
(* its own new_sheet, the context is read-only), so a behaviour follows    *)
(* one sheet through process_excel and process_sheet.  A step of the       *)
(* translation phase is one backend request (requests.post) together with  *)
(* all the code that runs until the next request is due.  This is Spec;    *)
(* QuoteSpec is the same pipeline against a backend that wraps each        *)
(* complete answer in quote characters.                                    *)
(*                                                                         *)
(* PoolSpec follows upload_file and process_excel with the sheets as the   *)
(* tasks of the thread pool, and AnalyzeSpec follows                       *)
(* analyze_excel_structure over a whole workbook.  Each specification      *)
(* keeps the variables of the others at fixed values.                      *)
(***************************************************************************)
EXTENDS Integers, Sequences, FiniteSets, TLC

VARIABLES
    sheet,             \* the source sheet: [cells, merged]; never mutated
    context,           \* analyze_excel_structure's result (NoContext before it ran)
    pc,                \* position of the run
    new_merged,        \* new_sheet.merged_cells
    new_cells,         \* new_sheet's cells, by the index of the source cell
    pos,               \* process_sheet: the next cell of the iter_rows loop
    cells_to_process,  \* process_sheet: the (new_cell, cell.value) pairs collected
    bstart,            \* process_sheet: i of the batch loop (1-based)
    call,              \* batch_translate / retry_failed_translations in progress
    ret,               \* last return of batch_translate: [texts, result]
    twc,               \* last return of translate_with_context
    nreq,              \* history: value |-> requests that carried it (up to ReqCap)
    sentCells,         \* history: cells whose value a request carried as text
    ctxCells,          \* history: cells whose str(value) a request's context carried
    okSeen,            \* history: some request was answered 200 with a response
    badSeen,           \* history: some request failed or was answered malformed
    new_meta,          \* the sheet-level attributes copied onto new_sheet so far
    backend            \* the backend's habit: "plain" answers or "quoting" ones

\* process_excel and upload_file seen from the thread pool (sheets as tasks)
VARIABLES
    upload,            \* the POST request: "ok" or the reason validation rejects it
    names,             \* workbook.sheetnames of the uploaded document
    response,          \* upload_file's response: "none" until it returns
    attempt,           \* upload_file: attempt of the retry loop
    xpc,               \* position of process_excel's main thread
    cause,             \* what made process_excel raise ("none" if it did not)
    new_names,         \* new_wb.sheetnames
    task,              \* per sheet: the state of its process_sheet task
    invocations,       \* history: calls of process_excel for this upload
    failures,          \* history: calls of process_excel that raised
    outOfOrder         \* history: a task completed before one of an earlier sheet

\* analyze_excel_structure on a whole workbook
VARIABLES
    book,              \* the workbook: [raises, sampling, sheets], sheets of rows of cells
    max_items,         \* the parameter max_items
    apc,               \* position of analyze_excel_structure
    asheet,            \* the sheet of the loop over the workbook
    todo,              \* the cells of the (sampled) rows of this sheet still to visit
    actx,              \* context while it is built (sets, and the dict as pairs)
    aresult            \* the context returned

sheetVars == <<sheet, context, pc, new_merged, new_cells, pos, cells_to_process,
               bstart, call, ret, twc, nreq, sentCells, ctxCells, okSeen, badSeen,
               new_meta, backend>>
poolVars == <<upload, names, response, attempt, xpc, cause, new_names, task,
              invocations, failures, outOfOrder>>
analyzeVars == <<book, max_items, apc, asheet, todo, actx, aresult>>
\* the variables that the pipeline of one sheet leaves alone
otherVars == <<poolVars, analyzeVars>>
vars == <<sheetVars, otherVars>>

\* the pool is not part of the behaviours that follow one sheet
PoolUnused ==
    /\ upload = "ok"
    /\ names = <<>>
    /\ response = "none"
    /\ attempt = 0
    /\ xpc = "idle"
    /\ cause = "none"
    /\ new_names = <<>>
    /\ task = <<>>
    /\ invocations = 0
    /\ failures = 0
    /\ outOfOrder = FALSE

\* analyze_excel_structure is part of the behaviours only as the operator on
\* one sheet's first row
AnalyzeUnused ==
    /\ book = [raises |-> FALSE, sampling |-> FALSE, sheets |-> <<>>]
    /\ max_items = 0
    /\ apc = "unused"
    /\ asheet = 0
    /\ todo = <<>>
    /\ actx = <<>>
    /\ aresult = <<>>

----------------------------------------------------------------------------
(* Program constants *)

MAX_RETRIES == 3
BATCH_SIZE == 10
INDIVIDUAL_ATTEMPTS == 3

(* Bounds of the model *)

\* columns of the modelled sheet
Cols == 2
\* filler cells between the two probe cells of a long sheet
MaxGap == 9
\* the request counters of the history count up to ReqCap ("ReqCap or more")
ReqCap == 2
\* the requests for one string of the individual fallback are counted up to
\* UnitReqCap ("UnitReqCap or more")
UnitReqCap == 3

----------------------------------------------------------------------------
(* Strings *)

NL == "NL"
MARK == "---SPLIT---"
SEP == <<NL, MARK, NL>>
Whitespace == {" ", NL, "TAB", "CR", "VT", "FF"}
DigitChars == {"0", "1", "2", "3", "4", "5", "6", "7", "8", "9"}

Min(a, b) == IF a < b THEN a ELSE b

\* str.replace(ch, '') for every ch of chars
Remove(s, chars) == SelectSeq(s, LAMBDA ch : ch \notin chars)

RECURSIVE LStrip(_)
LStrip(s) ==
    IF s # <<>> /\ Head(s) \in Whitespace THEN LStrip(Tail(s)) ELSE s

RECURSIVE RStrip(_)
RStrip(s) ==
    IF s # <<>> /\ s[Len(s)] \in Whitespace
    THEN RStrip(SubSeq(s, 1, Len(s) - 1))
    ELSE s

\* str.strip()
Strip(s) == RStrip(LStrip(s))

\* str.isdigit() (False for the empty string)
IsDigit(s) == s # <<>> /\ \A k \in 1..Len(s) : s[k] \in DigitChars

\* "\n---SPLIT---\n".join(texts)
RECURSIVE Join(_)
Join(texts) ==
    IF texts = <<>> THEN <<>>
    ELSE IF Len(texts) = 1 THEN texts[1]
    ELSE texts[1] \o SEP \o Join(Tail(texts))

\* s.split("\n---SPLIT---\n"): left to right, non-overlapping; cur is the
\* segment being read
RECURSIVE SplitFrom(_, _)
SplitFrom(s, cur) ==
    IF s = <<>> THEN <<cur>>
    ELSE IF Len(s) >= Len(SEP) /\ SubSeq(s, 1, Len(SEP)) = SEP
    THEN <<cur>> \o SplitFrom(SubSeq(s, Len(SEP) + 1, Len(s)), <<>>)
    ELSE SplitFrom(Tail(s), Append(cur, Head(s)))

Split(s) == SplitFrom(s, <<>>)

\* float(s) succeeds: [sign] (digits [. [digits]] | . digits) [e [sign] digits].
\* The spellings inf, nan and digit grouping by "_" use characters that no
\* candidate numeric string of the model holds.
FloatStep(q, ch) ==
    CASE q = "start" /\ ch \in {"+", "-"} -> "sign"
      [] q \in {"start", "sign", "int"} /\ ch \in DigitChars -> "int"
      [] q \in {"start", "sign"} /\ ch = "." -> "dot"
      [] q = "int" /\ ch = "." -> "frac"
      [] q \in {"dot", "frac"} /\ ch \in DigitChars -> "frac"
      [] q \in {"int", "frac"} /\ ch \in {"e", "E"} -> "e"
      [] q = "e" /\ ch \in {"+", "-"} -> "esign"
      [] q \in {"e", "esign", "exp"} /\ ch \in DigitChars -> "exp"
      [] OTHER -> "bad"

RECURSIVE FloatRun(_, _)
FloatRun(q, s) == IF s = <<>> THEN q ELSE FloatRun(FloatStep(q, Head(s)), Tail(s))

IsFloat(s) == FloatRun("start", Strip(s)) \in {"int", "frac", "exp"}

\* the decimal digits of a natural number
RECURSIVE Digits(_)
Digits(n) ==
    LET d == <<"0", "1", "2", "3", "4", "5", "6", "7", "8", "9">>[(n % 10) + 1]
    IN IF n < 10 THEN <<d>> ELSE Append(Digits(n \div 10), d)

----------------------------------------------------------------------------
(* Cell values and cells *)

\* A cell value: a string (s), a number (n), a boolean (n = 1 for True), a
\* date (n: the day of January 2024) or None.
StrV(s) == [t |-> "str", s |-> s, n |-> 0]
NumV(n) == [t |-> "num", s |-> <<>>, n |-> n]
BoolV(b) == [t |-> "bool", s |-> <<>>, n |-> IF b THEN 1 ELSE 0]
DateV(d) == [t |-> "date", s |-> <<>>, n |-> d]
NoneV == [t |-> "none", s |-> <<>>, n |-> 0]

\* Python's truth value of a cell value
Truthy(v) ==
    CASE v.t = "str" -> v.s # <<>>
      [] v.t = "num" -> v.n # 0
      [] v.t = "bool" -> v.n = 1
      [] v.t = "date" -> TRUE
      [] OTHER -> FALSE

\* str(value)
PyStr(v) ==
    CASE v.t = "str" -> v.s
      [] v.t = "num" -> Digits(v.n)
      [] v.t = "bool" -> IF v.n = 1 THEN <<"T", "r", "u", "e">>
                         ELSE <<"F", "a", "l", "s", "e">>
      [] v.t = "date" -> <<"2", "0", "2", "4", "-", "0", "1", "-">>
                         \o (IF v.n < 10 THEN <<"0">> ELSE <<>>) \o Digits(v.n)
                         \o <<" ", "0", "0", ":", "0", "0", ":", "0", "0">>
      [] OTHER -> <<"N", "o", "n", "e">>

DefaultStyle == "default"
Styles == {DefaultStyle, "bold"}

\* cell.has_style
HasStyle(c) == c.style # DefaultStyle

\* isinstance(cell, MergedCell): a non-anchor member of a merge range
IsMergedCell(c) == c.member

\* is_numeric_string(text)
is_numeric_string(v) ==
    /\ v.t = "str"
    /\ IsFloat(Strip(Remove(v.s, {",", "$", "%"})))

\* translate_text's test for dates and pure numbers:
\* text.replace('.', '').replace('/', '').replace('-', '').isdigit()
IsNumberOrDate(s) == IsDigit(Remove(s, {".", "/", "-"}))

\* the test below without isinstance(cell.value, str)
NeedsTranslation_NoTypeTest(v) == Truthy(v) /\ ~is_numeric_string(v)

\* process_sheet's test for a cell that goes to the translation batch; no
\* other test lies on the way to the backend (translate_text is never called)
NeedsTranslation(v) ==
    Truthy(v) /\ v.t = "str" /\ ~is_numeric_string(v)

----------------------------------------------------------------------------
(* The source sheets of the model *)

TxtA == StrV(<<"a">>)
TxtB == StrV(<<"b">>)
Filler == StrV(<<"f">>)
Formula == StrV(<<"=", "S">>)
DateLike == StrV(<<"1", "-", "2">>)
Fraction == StrV(<<"1", "/", "2">>)
NumComma == StrV(<<"1", ",", "2", ".", "5">>)
Digits12 == StrV(<<"1", "2">>)
Blank == StrV(<<" ">>)
WithSep == StrV(<<"a", NL, MARK, NL, "b">>)
Bullet == StrV(<<"-", " ", "a">>)

\* the values of the first probe cell and of the last one
ProbeValues ==
    {TxtA, Formula, DateLike, Fraction, NumComma, Digits12, Blank, WithSep, Bullet,
     NumV(7), NumV(0), BoolV(TRUE), DateV(15), NoneV}
LastValues == {TxtA, TxtB, NumV(7)}
LongValues == {TxtA, NumV(7)}
TitleValues == {TxtA, NumV(7)}
Gaps == {0, MaxGap}

Cell(v, st) == [value |-> v, style |-> st, member |-> FALSE]
\* a non-anchor member of a merge range: no value, its own style
Member(st) == [value |-> NoneV, style |-> st, member |-> TRUE]

Repeat(x, n) == [k \in 1..n |-> x]

\* s padded with empty cells to whole rows of Cols cells
PadRow(s) == s \o Repeat(Cell(NoneV, DefaultStyle), (Cols - (Len(s) % Cols)) % Cols)

\* the body: probe a, gap filler cells, probe b
Body(a, gap, b) ==
    PadRow(<<Cell(a, "bold")>> \o Repeat(Cell(Filler, DefaultStyle), gap)
           \o <<Cell(b, DefaultStyle)>>)

\* a title row: the anchor A1 merged with B1
TitleRow(v, st) == PadRow(<<Cell(v, "bold"), Member(st)>>)
TitleRange == [r1 |-> 1, c1 |-> 1, r2 |-> 1, c2 |-> 2]

\* no title row, or a title row whose member cell B1 is styled or not
Titles ==
    {[cells |-> <<>>, merged |-> {}]}
    \cup {[cells |-> TitleRow(v, st), merged |-> {TitleRange}] :
             v \in TitleValues, st \in Styles}

\* every pair of probes next to each other, and the long sheets, whose cells
\* fill more than one batch
Sheets ==
    {[cells |-> t.cells \o Body(a, 0, b), merged |-> t.merged] :
        t \in Titles, a \in ProbeValues, b \in LastValues}
    \cup
    {[cells |-> t.cells \o Body(a, MaxGap, b), merged |-> t.merged] :
        t \in Titles, a \in LongValues, b \in LastValues}

NCells == Len(sheet.cells)
RowOf(k) == ((k - 1) \div Cols) + 1
ColOf(k) == ((k - 1) % Cols) + 1

----------------------------------------------------------------------------
(* analyze_excel_structure: the headers of the context *)

NoContext == [built |-> FALSE, headers |-> {}]

\* the cells of sheet[1] that contribute a header
HeaderCells(sh) ==
    {k \in 1..Len(sh.cells) : RowOf(k) = 1 /\ Truthy(sh.cells[k].value)}

analyze_excel_structure(sh) ==
    [built |-> TRUE,
     headers |-> {PyStr(sh.cells[k].value) : k \in HeaderCells(sh)}]

----------------------------------------------------------------------------
(* The state after construction *)

\* writes: the attributes of the destination cell in the order they were set
NoCell == [exists |-> FALSE, style |-> DefaultStyle, value |-> NoneV,
           assigned |-> FALSE, writes |-> <<>>]
\* answered: the combined request of the batch got a response; ureq: the
\* requests made so far for the string at idx of the individual fallback
NoCall == [mode |-> "idle", batch |-> <<>>, texts |-> <<>>, attempt |-> 0,
           valid |-> <<>>, idx |-> 0, final |-> <<>>, try |-> 0,
           answered |-> FALSE, ureq |-> 0]
\* answered: as in call; individual: retry_failed_translations made the result
NoRet == [returned |-> FALSE, texts |-> <<>>, result |-> <<>>,
          answered |-> FALSE, individual |-> FALSE]
\* response: the "response" field of the request that was answered
NoTwc == [mode |-> "idle", text |-> <<>>, value |-> <<>>,
          answered |-> FALSE, response |-> <<>>]

\* process_excel is called with a workbook of one sheet
Constructed ==
    /\ sheet \in Sheets
    /\ context = NoContext
    /\ pc = "load"
    /\ new_merged = {}
    /\ new_cells = [k \in 1..NCells |-> NoCell]
    /\ pos = 1
    /\ cells_to_process = <<>>
    /\ bstart = 1
    /\ call = NoCall
    /\ ret = NoRet
    /\ twc = NoTwc
    /\ nreq = [v \in {sheet.cells[k].value : k \in 1..NCells} |-> 0]
    /\ sentCells = {}
    /\ ctxCells = {}
    /\ okSeen = FALSE
    /\ badSeen = FALSE
    /\ new_meta = {}
    /\ PoolUnused
    /\ AnalyzeUnused

\* the backend answers as it is asked
Init == Constructed /\ backend = "plain"

----------------------------------------------------------------------------
(* process_excel: load, analyse, create the destination sheet *)

\* openpyxl.load_workbook, analyze_excel_structure
LoadAndAnalyze ==
    /\ pc = "load"
    /\ context' = analyze_excel_structure(sheet)
    /\ pc' = "create"
    /\ UNCHANGED <<otherVars, twc, sheet, new_merged, new_cells, pos, cells_to_process, bstart,
                   call, ret, nreq, sentCells, ctxCells, okSeen, badSeen, new_meta, backend>>

\* new_wb.create_sheet, the copy of the sheet properties, executor.submit
CreateSheet ==
    /\ pc = "create"
    /\ new_meta' = new_meta \cup {"sheet_format", "sheet_properties"}
    /\ pc' = "dims"
    /\ UNCHANGED <<otherVars, twc, sheet, context, new_merged, new_cells, pos, cells_to_process,
                   bstart, call, ret, nreq, sentCells, ctxCells, okSeen, badSeen, backend>>

----------------------------------------------------------------------------
(* process_sheet: the structure and the cells *)

\* process_sheet that goes to the cells without copying the dimensions
CopyDimensions_Skipped ==
    /\ pc = "dims"
    /\ pc' = "merged"
    /\ UNCHANGED <<otherVars, twc, sheet, context, new_merged, new_cells, pos, cells_to_process,
                   bstart, call, ret, nreq, sentCells, ctxCells, okSeen, badSeen, new_meta, backend>>

\* the loops over sheet.column_dimensions and sheet.row_dimensions
CopyDimensions ==
    /\ pc = "dims"
    /\ new_meta' = new_meta \cup {"column_dimensions", "row_dimensions"}
    /\ pc' = "merged"
    /\ UNCHANGED <<otherVars, twc, sheet, context, new_merged, new_cells, pos, cells_to_process,
                   bstart, call, ret, nreq, sentCells, ctxCells, okSeen, badSeen, backend>>

\* process_sheet without the copy of sheet.merged_cells
CopyMergedCells_Skipped ==
    /\ pc = "merged"
    /\ pc' = "cells"
    /\ UNCHANGED <<otherVars, twc, sheet, context, new_merged, new_cells, pos, cells_to_process,
                   bstart, call, ret, nreq, sentCells, ctxCells, okSeen, badSeen, new_meta, backend>>

CopyMergedCells ==
    /\ pc = "merged"
    /\ new_merged' = IF sheet.merged # {} THEN sheet.merged ELSE new_merged
    /\ pc' = "cells"
    /\ UNCHANGED <<otherVars, twc, sheet, context, new_cells, pos, cells_to_process, bstart,
                   call, ret, nreq, sentCells, ctxCells, okSeen, badSeen, new_meta, backend>>

\* the copy of the cell formatting onto new_cell
CopyStyle(c, nc) ==
    IF HasStyle(c)
    THEN [nc EXCEPT !.style = c.style, !.writes = Append(@, "style")]
    ELSE nc

\* new_sheet.cell(row, column): the destination cell comes to exist
NewCell == [NoCell EXCEPT !.exists = TRUE, !.writes = <<"cell">>]

\* cell.value = v on a destination cell
SetValue(nc, v) ==
    [nc EXCEPT !.value = v, !.assigned = TRUE, !.writes = Append(@, "value")]

\* one pass of the loop over sheet.iter_rows()
CollectCell ==
    /\ pc = "cells"
    /\ pos <= NCells
    /\ LET c == sheet.cells[pos]
           nc == CopyStyle(c, NewCell)
       IN IF IsMergedCell(c)
          THEN UNCHANGED <<new_cells, cells_to_process>>
          ELSE IF NeedsTranslation(c.value)
          THEN /\ new_cells' = [new_cells EXCEPT ![pos] = nc]
               /\ cells_to_process' =
                      Append(cells_to_process, [cell |-> pos, text |-> c.value])
          ELSE /\ new_cells' = [new_cells EXCEPT ![pos] = SetValue(nc, c.value)]
               /\ UNCHANGED cells_to_process
    /\ pos' = pos + 1
    /\ UNCHANGED <<otherVars, twc, sheet, context, pc, new_merged, bstart, call, ret, nreq,
                   sentCells, ctxCells, okSeen, badSeen, new_meta, backend>>

----------------------------------------------------------------------------
(* process_cell_batch, batch_translate, retry_failed_translations *)

\* the keys of unique_texts, in the order of their first cell
RECURSIVE UniqueTexts(_)
UniqueTexts(batch) ==
    IF batch = <<>> THEN <<>>
    ELSE LET init == SubSeq(batch, 1, Len(batch) - 1)
             last == batch[Len(batch)].text
             rest == UniqueTexts(init)
         IN IF ~Truthy(last) \/ \E k \in 1..Len(rest) : rest[k] = last
            THEN rest
            ELSE Append(rest, last)

\* unique_texts[text]
CellsOf(batch, text) == {batch[j].cell : j \in {j \in 1..Len(batch) : batch[j].text = text}}

\* the batch cells_to_process[i:i + BATCH_SIZE]
BatchAt(i) == SubSeq(cells_to_process, i, Min(i + BATCH_SIZE - 1, Len(cells_to_process)))

\* the call of batch_translate for the batch at i, before its first request
BatchCall(i) ==
    [mode |-> "batch", batch |-> BatchAt(i), texts |-> UniqueTexts(BatchAt(i)),
     attempt |-> 0, valid |-> <<>>, idx |-> 0, final |-> <<>>, try |-> 0,
     answered |-> FALSE, ureq |-> 0]

\* the placeholder None of valid_translations
NoneT == <<"<None>">>
\* Python's truth value of an entry of valid_translations
Usable(tr) == tr # NoneT /\ tr # <<>>

\* the loop of retry_failed_translations from pair idx on, up to the first
\* pair that needs a request: [idx, final]
RECURSIVE Scan(_, _, _, _)
Scan(texts, valid, idx, final) ==
    IF idx > Min(Len(texts), Len(valid)) THEN [idx |-> idx, final |-> final]
    ELSE IF Usable(valid[idx]) THEN Scan(texts, valid, idx + 1, Append(final, valid[idx]))
    ELSE [idx |-> idx, final |-> final]

\* the loop of process_sheet that applies the results of a batch
ApplyResults(cells, batch, texts, result) ==
    [i \in DOMAIN cells |->
        LET hit == {k \in 1..Min(Len(texts), Len(result)) : i \in CellsOf(batch, texts[k])}
        IN IF hit = {} THEN cells[i]
           ELSE SetValue(cells[i], StrV(result[CHOOSE k \in hit : TRUE]))]

\* the end of the cell loop: the first batch, or the end of process_sheet
StartBatches ==
    /\ pc = "cells"
    /\ pos > NCells
    /\ IF cells_to_process = <<>>
       THEN pc' = "finished" /\ call' = NoCall
       ELSE pc' = "translate" /\ call' = BatchCall(1)
    /\ bstart' = 1
    /\ UNCHANGED <<otherVars, twc, sheet, context, new_merged, new_cells, pos, cells_to_process,
                   ret, nreq, sentCells, ctxCells, okSeen, badSeen, new_meta, backend>>

\* batch_translate returns result: process_cell_batch and process_sheet apply
\* it, and the batch loop goes on
BatchReturns(result, answered, individual) ==
    /\ new_cells' = ApplyResults(new_cells, call.batch, call.texts, result)
    /\ ret' = [returned |-> TRUE, texts |-> [k \in 1..Len(call.texts) |-> call.texts[k].s],
               result |-> result, answered |-> answered, individual |-> individual]
    /\ bstart' = bstart + BATCH_SIZE
    /\ IF bstart + BATCH_SIZE <= Len(cells_to_process)
       THEN pc' = "translate" /\ call' = BatchCall(bstart + BATCH_SIZE)
       ELSE pc' = "finished" /\ call' = NoCall

\* retry_failed_translations goes on from pair idx with final collected
Retry(valid, idx, final, answered) ==
    LET s == Scan(call.texts, valid, idx, final)
    IN IF s.idx > Min(Len(call.texts), Len(valid))
       THEN BatchReturns(s.final, answered, TRUE)
       ELSE /\ call' = [call EXCEPT !.mode = "indiv", !.valid = valid, !.idx = s.idx,
                                    !.final = s.final, !.try = 0, !.attempt = 0,
                                    !.answered = answered, !.ureq = 0]
            /\ UNCHANGED <<new_cells, ret, bstart, pc>>

\* translate_with_context returns v to its caller, after a response or not
Returned(v, answered) ==
    LET n == Len(call.texts)
    IN IF call.mode = "batch"
       THEN IF v = <<>>
            THEN Retry([k \in 1..n |-> NoneT], 1, <<>>, answered)
            ELSE LET translations == Split(v)
                 IN IF Len(translations) # n
                    THEN Retry(SubSeq(translations, 1, Min(n, Len(translations))), 1, <<>>,
                               answered)
                    ELSE BatchReturns(translations, answered, FALSE)
       ELSE IF v # <<>> /\ Strip(v) # <<>>
            THEN Retry(call.valid, call.idx + 1, Append(call.final, v), call.answered)
            ELSE IF call.try + 1 < INDIVIDUAL_ATTEMPTS
            THEN /\ call' = [call EXCEPT !.try = @ + 1, !.attempt = 0,
                                    !.ureq = Min(@ + 1, UnitReqCap)]
                 /\ UNCHANGED <<new_cells, ret, bstart, pc>>
            ELSE Retry(call.valid, call.idx + 1,
                       Append(call.final, call.texts[call.idx].s), call.answered)

----------------------------------------------------------------------------
(* translate_with_context and the backend *)

\* the text of the request that is due (never empty: unique_texts holds only
\* truthy texts, so translate_with_context's early return is not taken)
Payload ==
    IF call.mode = "batch"
    THEN Join([k \in 1..Len(call.texts) |-> call.texts[k].s])
    ELSE call.texts[call.idx].s

\* the values that the request carries
Units ==
    IF call.mode = "batch"
    THEN {call.texts[k] : k \in 1..Len(call.texts)}
    ELSE {call.texts[call.idx]}

\* The backend's answers.  It reads the text as the parts between the
\* separators and renders a part p as one of two translations, E p or F p.
Flavours == {"E", "F"}
Tr(f, p) == <<f>> \o p
Segments(f, text) == LET parts == Split(text) IN [k \in 1..Len(parts) |-> Tr(f, parts[k])]

\* one translation per part
WellFormed(text) == {Join(Segments(f, text)) : f \in Flavours}

\* the last part missing, one part too many, one part empty, only white space
Malformed(text) ==
    LET n == Len(Split(text))
    IN {Join(SubSeq(Segments(f, text), 1, n - 1)) : f \in Flavours}
       \cup {Join(Append(Segments(f, text), <<f>>)) : f \in Flavours}
       \cup {Join([Segments(f, text) EXCEPT ![k] = <<>>]) : f \in Flavours, k \in 1..n}
       \cup {<<" ">>}

\* one translation per part, the whole answer wrapped in quote characters
QUOTE == "\""
Quoted(text) == {<<QUOTE>> \o w \o <<QUOTE>> : w \in WellFormed(text)}

\* the complete answers of the backend: as they are, or wrapped in quotes
Complete(text) == IF backend = "quoting" THEN Quoted(text) ELSE WellFormed(text)

\* the non-empty values of the "response" field of a 200 answer
Responses(text) == (Complete(text) \cup Malformed(text)) \ {<<>>}

\* the bookkeeping of one request: answered with a response or not, and
\* whether the response was well formed
Log(answered, good) ==
    /\ nreq' = [v \in DOMAIN nreq |->
                   IF v \in Units THEN Min(nreq[v] + 1, ReqCap) ELSE nreq[v]]
    /\ sentCells' = sentCells \cup UNION {CellsOf(call.batch, u) : u \in Units}
    /\ ctxCells' = IF context.built THEN ctxCells \cup HeaderCells(sheet) ELSE ctxCells
    /\ okSeen' = (okSeen \/ answered)
    /\ badSeen' = (badSeen \/ ~good)

\* a retry loop of translate_with_context with one more pass
MoreAttempts_OneMore(a) == a + 1 < MAX_RETRIES + 1

\* for attempt in range(MAX_RETRIES): another pass follows this one
MoreAttempts(a) == a + 1 < MAX_RETRIES

\* the ways in which a request does not yield a response
FailureKinds ==
    {"status", "no response field", "empty response", "malformed body",
     "exception", "timeout"}

\* a request that does not yield a response: a status other than 200, a 200
\* answer without a (non-empty) "response", or an exception (a timeout, a
\* connection error, a body that is not JSON)
RequestFails ==
    /\ pc = "translate"
    /\ \E kind \in FailureKinds :
          IF MoreAttempts(call.attempt)
          THEN /\ call' = [call EXCEPT !.attempt = @ + 1,
                                       !.ureq = IF call.mode = "indiv" THEN Min(@ + 1, UnitReqCap) ELSE @]
               /\ UNCHANGED <<new_cells, ret, bstart, pc, twc>>
          ELSE /\ Returned(Payload, FALSE)
               /\ twc' = [mode |-> call.mode, text |-> Payload, value |-> Payload,
                          answered |-> FALSE, response |-> <<>>]
    /\ Log(FALSE, FALSE)
    /\ UNCHANGED <<otherVars, sheet, context, new_merged, pos, cells_to_process, new_meta, backend>>

\* a request answered 200 with response r
RequestAnswered ==
    /\ pc = "translate"
    /\ \E r \in Responses(Payload) :
          /\ Returned(Strip(r), TRUE)
          /\ twc' = [mode |-> call.mode, text |-> Payload, value |-> Strip(r),
                     answered |-> TRUE, response |-> r]
          /\ Log(TRUE, r \in Complete(Payload))
    /\ UNCHANGED <<otherVars, sheet, context, new_merged, pos, cells_to_process, new_meta, backend>>

\* process_excel: new_wb.save after every sheet task has completed
Save ==
    /\ pc = "finished"
    /\ pc' = "saved"
    /\ UNCHANGED <<otherVars, twc, sheet, context, new_merged, new_cells, pos, cells_to_process,
                   bstart, call, ret, nreq, sentCells, ctxCells, okSeen, badSeen, new_meta, backend>>

Next ==
    \/ LoadAndAnalyze
    \/ CreateSheet
    \/ CopyDimensions
    \/ CopyMergedCells
    \/ CollectCell
    \/ StartBatches
    \/ RequestFails
    \/ RequestAnswered
    \/ Save

Spec == Init /\ [][Next]_vars

\* the same pipeline against a backend that wraps its answers in quotes
QuoteInit == Constructed /\ backend = "quoting"
QuoteSpec == QuoteInit /\ [][Next]_vars

----------------------------------------------------------------------------
(* upload_file and process_excel with the sheets as tasks of the pool *)

\* the limit of ThreadPoolExecutor's max_workers
MAX_WORKERS == 4
\* sheets of the largest uploaded workbook
MaxSheets == 5

\* the sheet names that the uploaded workbooks draw from, in workbook order
SheetNames == <<"S3", "S1", "S4", "S2", "S6", "S5", "S7">>
\* the name of the chart sheet of the workbooks that hold one
ChartName == "Chart1"
\* workbook[nm] is a Chartsheet (it has no cells, no sheet_format and no
\* sheet_properties)
IsChartsheet(nm) == nm = ChartName
\* the workbooks: worksheets only, or one chart sheet among them
Workbooks ==
    {SubSeq(SheetNames, 1, n) : n \in 1..MaxSheets}
    \cup UNION {{[SubSeq(SheetNames, 1, n) EXCEPT ![c] = ChartName] : c \in 1..n} :
                    n \in 1..MaxSheets}

\* the POST requests: a well-formed upload, and those that validation rejects
Uploads == {"ok", "no file", "no name", "bad type", "too large"}

\* the pipeline of one sheet is not part of the behaviours of the pool
SheetUnused ==
    /\ sheet = [cells |-> <<>>, merged |-> {}]
    /\ context = NoContext
    /\ pc = "unused"
    /\ new_merged = {}
    /\ new_cells = <<>>
    /\ pos = 1
    /\ cells_to_process = <<>>
    /\ bstart = 1
    /\ call = NoCall
    /\ ret = NoRet
    /\ twc = NoTwc
    /\ nreq = <<>>
    /\ sentCells = {}
    /\ ctxCells = {}
    /\ okSeen = FALSE
    /\ badSeen = FALSE
    /\ new_meta = {}
    /\ backend = "plain"

NoTask == [state |-> "none", runs |-> 0]
NoTasks == [i \in 1..Len(names) |-> NoTask]

PoolInit ==
    /\ upload \in Uploads
    /\ names \in Workbooks
    /\ response = "none"
    /\ attempt = 0
    /\ xpc = "idle"
    /\ cause = "none"
    /\ new_names = <<>>
    /\ task = NoTasks
    /\ invocations = 0
    /\ failures = 0
    /\ outOfOrder = FALSE
    /\ SheetUnused
    /\ AnalyzeUnused

\* max_workers of the executor without the limit
max_workers_Unlimited(n) == n

\* max_workers of the executor of process_excel
max_workers(n) == Min(MAX_WORKERS, n)

\* sheets whose task occupies a worker
Busy == {i \in 1..Len(names) : task[i].state \in {"running", "requesting"}}
\* sheets whose task has ended
Ended == {i \in 1..Len(names) : task[i].state \in {"done", "raised"}}

\* the checks of upload_file before the retry loop
RejectUpload ==
    /\ upload # "ok"
    /\ response = "none"
    /\ response' = "400"
    /\ UNCHANGED <<sheetVars, analyzeVars, upload, names, attempt, xpc, cause, new_names, task,
                   invocations, failures, outOfOrder>>

\* a call of process_excel: fresh workbooks, no task yet
Invoke ==
    /\ xpc' = "load"
    /\ cause' = "none"
    /\ new_names' = <<>>
    /\ task' = NoTasks
    /\ outOfOrder' = FALSE
    /\ invocations' = invocations + 1

\* the first pass of the retry loop of upload_file
FirstAttempt ==
    /\ upload = "ok"
    /\ response = "none"
    /\ xpc = "idle"
    /\ Invoke
    /\ UNCHANGED <<sheetVars, analyzeVars, upload, names, response, attempt, failures>>

\* openpyxl.load_workbook (which can raise), analyze_excel_structure (which
\* cannot: it catches), openpyxl.Workbook()
LoadWorkbook ==
    /\ xpc = "load"
    /\ \/ /\ xpc' = "submit"
          /\ UNCHANGED <<cause, failures>>
       \/ /\ xpc' = "raised"
          /\ cause' = "load"
          /\ failures' = failures + 1
    /\ UNCHANGED <<sheetVars, analyzeVars, upload, names, response, attempt, new_names, task,
                   invocations, outOfOrder>>

\* new_wb.create_sheet at the head of the sheet list instead of its end
SheetCreated_AtFront(nm) == <<nm>> \o new_names

\* new_wb.sheetnames after new_wb.create_sheet(title=nm)
SheetCreated(nm) == Append(new_names, nm)

\* one pass of the loop over workbook.sheetnames: create_sheet, the copy of
\* the sheet properties, executor.submit.  On a chart sheet the read of
\* sheet.sheet_format raises in the main thread, outside every handler but
\* the outer one: the with block is left
SubmitSheet ==
    /\ xpc = "submit"
    /\ Len(new_names) < Len(names)
    /\ LET k == Len(new_names) + 1
       IN /\ new_names' = SheetCreated(names[k])
          /\ IF IsChartsheet(names[k])
             THEN xpc' = "unwind" /\ UNCHANGED task
             ELSE xpc' = xpc /\ task' = [task EXCEPT ![k].state = "queued"]
    /\ UNCHANGED <<sheetVars, analyzeVars, upload, names, response, attempt, cause,
                   invocations, failures, outOfOrder>>

\* the exit of the with block on an exception: the executor waits for the
\* tasks submitted so far, then process_excel logs and raises
ExecutorExit ==
    /\ xpc = "unwind"
    /\ \A i \in 1..Len(names) : task[i].state \in {"none", "done", "raised"}
    /\ xpc' = "raised"
    /\ cause' = "sheet"
    /\ failures' = failures + 1
    /\ UNCHANGED <<sheetVars, analyzeVars, upload, names, response, attempt, new_names,
                   task, invocations, outOfOrder>>

\* a free worker takes the oldest queued task (the work queue is first in,
\* first out) and enters process_sheet
StartTask(i) ==
    /\ task[i].state = "queued"
    /\ \A j \in 1..(i - 1) : task[j].state # "queued"
    /\ Cardinality(Busy) < max_workers(Len(names))
    /\ task' = [task EXCEPT ![i] = [state |-> "running", runs |-> @.runs + 1]]
    /\ UNCHANGED <<sheetVars, analyzeVars, upload, names, response, attempt, xpc, cause,
                   new_names, invocations, failures, outOfOrder>>

\* process_sheet reaches a request of its batch loop: requests.post blocks
\* the worker until the answer or the timeout
IssueRequest(i) ==
    /\ task[i].state = "running"
    /\ task' = [task EXCEPT ![i].state = "requesting"]
    /\ UNCHANGED <<sheetVars, analyzeVars, upload, names, response, attempt, xpc, cause,
                   new_names, invocations, failures, outOfOrder>>

\* requests.post returns or raises into translate_with_context
RequestEnds(i) ==
    /\ task[i].state = "requesting"
    /\ task' = [task EXCEPT ![i].state = "running"]
    /\ UNCHANGED <<sheetVars, analyzeVars, upload, names, response, attempt, xpc, cause,
                   new_names, invocations, failures, outOfOrder>>

\* process_sheet returns, or raises (its handler logs and raises again)
TaskEnds(i) ==
    /\ task[i].state = "running"
    /\ \E how \in {"done", "raised"} : task' = [task EXCEPT ![i].state = how]
    /\ outOfOrder' = (outOfOrder \/ \E j \in 1..(i - 1) : j \notin Ended)
    /\ UNCHANGED <<sheetVars, analyzeVars, upload, names, response, attempt, xpc, cause,
                   new_names, invocations, failures>>


\* the loop over as_completed(futures): the exception that future.result()
\* raises again is logged, and process_excel goes on
FuturesOutcome(raised) == "save"

\* every sheet is submitted and every task has ended: the futures are
\* collected and the executor shuts down
CollectFutures ==
    /\ xpc = "submit"
    /\ Len(new_names) = Len(names)
    /\ Ended = 1..Len(names)
    /\ LET out == FuturesOutcome({i \in 1..Len(names) : task[i].state = "raised"})
       IN /\ xpc' = out
          /\ cause' = IF out = "raised" THEN "task" ELSE cause
          /\ failures' = IF out = "raised" THEN failures + 1 ELSE failures
    /\ UNCHANGED <<sheetVars, analyzeVars, upload, names, response, attempt, new_names, task,
                   invocations, outOfOrder>>

\* new_wb.save(buffer), which can raise
SaveWorkbook ==
    /\ xpc = "save"
    /\ \/ /\ xpc' = "returned"
          /\ UNCHANGED <<cause, failures>>
       \/ /\ xpc' = "raised"
          /\ cause' = "save"
          /\ failures' = failures + 1
    /\ UNCHANGED <<sheetVars, analyzeVars, upload, names, response, attempt, new_names, task,
                   invocations, outOfOrder>>

\* the retry loop of upload_file with one more pass
LastAttempt_OneMore(a) == a = MAX_RETRIES

\* attempt == MAX_RETRIES - 1 in the handler of the retry loop
LastAttempt(a) == a = MAX_RETRIES - 1

\* the handler of the retry loop: sleep and call process_excel again
RetryUpload ==
    /\ xpc = "raised"
    /\ response = "none"
    /\ ~LastAttempt(attempt)
    /\ attempt' = attempt + 1
    /\ Invoke
    /\ UNCHANGED <<sheetVars, analyzeVars, upload, names, response, failures>>

\* the handler of the retry loop on the last attempt: the error response
GiveUp ==
    /\ xpc = "raised"
    /\ response = "none"
    /\ LastAttempt(attempt)
    /\ response' = "500"
    /\ UNCHANGED <<sheetVars, analyzeVars, upload, names, attempt, xpc, cause, new_names, task,
                   invocations, failures, outOfOrder>>

\* process_excel returned the buffer: send_file
SendFile ==
    /\ xpc = "returned"
    /\ response = "none"
    /\ response' = "file"
    /\ UNCHANGED <<sheetVars, analyzeVars, upload, names, attempt, xpc, cause, new_names, task,
                   invocations, failures, outOfOrder>>

PoolNext ==
    \/ RejectUpload
    \/ FirstAttempt
    \/ LoadWorkbook
    \/ SubmitSheet
    \/ ExecutorExit
    \/ \E i \in 1..Len(names) : StartTask(i)
    \/ \E i \in 1..Len(names) : IssueRequest(i)
    \/ \E i \in 1..Len(names) : RequestEnds(i)
    \/ \E i \in 1..Len(names) : TaskEnds(i)
    \/ CollectFutures
    \/ SaveWorkbook
    \/ RetryUpload
    \/ GiveUp
    \/ SendFile

PoolSpec == PoolInit /\ [][PoolNext]_vars

----------------------------------------------------------------------------
(* analyze_excel_structure on a whole workbook *)

\* the default of the parameter max_items
DEFAULT_MAX_ITEMS == 50
\* the limit of dates, times, currencies and bullet_types
SUB_CAP == 10
\* the longest formula prefix and the longest repeated term
FORMULA_MAX_LEN == 100
TERM_MAX_LEN == 100
\* the largest max_items of the small workbooks
SmallMaxItems == 2

\* the number format 'General'
General == <<"G", "e", "n", "e", "r", "a", "l">>

\* str.lower() of one character (the letters that the formats here use)
LowerCh(ch) ==
    CASE ch = "Y" -> "y" [] ch = "M" -> "m" [] ch = "D" -> "d" [] ch = "H" -> "h"
      [] ch = "R" -> "r" [] ch = "G" -> "g" [] OTHER -> ch
Lower(f) == [k \in 1..Len(f) |-> LowerCh(f[k])]

\* ch in f, for some ch of chars
HasChar(f, chars) == \E k \in 1..Len(f) : f[k] \in chars
\* sub in f
Contains(f, sub) ==
    \E k \in 1..(Len(f) - Len(sub) + 1) : SubSeq(f, k, k + Len(sub) - 1) = sub

\* the bullet markers; each stands for one character
BulletMarkers == {"BULLET", "-", "SQUARE", "CIRCLE", "DIAMOND"}
\* the currency symbols; WON, YEN and EUR stand for one character each
CurrencySymbols == {<<"$">>, <<"WON">>, <<"YEN">>, <<"EUR">>, <<"R", "M">>}

IsDateFormat(f) == HasChar(Lower(f), {"y", "m", "d"})
IsTimeFormat(f) == HasChar(Lower(f), {"h"}) \/ HasChar(f, {":"})
IsCurrencyFormat(f) == \E c \in CurrencySymbols : Contains(f, c)
\* value.strip().startswith(('•', '-', '□', '○', '◆'))
StartsWithBullet(value) == Strip(value) # <<>> /\ Head(Strip(value)) \in BulletMarkers

\* the context before the first sheet
EmptyContext ==
    [headers |-> {}, row_headers |-> {}, dates |-> {}, times |-> {},
     formulas |-> {}, currencies |-> {}, bullet_types |-> {},
     repeated_terms |-> <<>>, cell_formats |-> {}]

(* The workbooks *)

\* what the cells of a workbook hold, and how a sheet is laid out
Kinds == {"text", "term", "formula", "bullet", "date", "time", "currency", "empty"}
Layouts == {"wide", "tall"}

\* eleven texts that differ in their first character and start, after
\* strip(), with a bullet marker
BulletText(id) ==
    LET lead == <<"BULLET", "-", "SQUARE", "CIRCLE", "DIAMOND",
                  " ", NL, "TAB", "CR", "VT", "FF">>[((id - 1) % 11) + 1]
    IN IF lead \in BulletMarkers THEN <<lead, "x">> ELSE <<lead, "-", "x">>

\* the cell number id of a workbook of a kind
ACell(kind, id) ==
    CASE kind = "text" ->
            [value |-> StrV(<<"t">> \o Digits(id)), number_format |-> General]
      [] kind = "term" ->
            [value |-> StrV(<<"r">> \o Digits(id % 2)), number_format |-> General]
      [] kind = "formula" ->
            [value |-> StrV(<<"=">> \o Digits(id)), number_format |-> General]
      [] kind = "bullet" ->
            [value |-> StrV(BulletText(id)), number_format |-> General]
      [] kind = "date" ->
            [value |-> NumV(id),
             number_format |-> <<IF id % 2 = 0 THEN "d" ELSE "Y">> \o Digits(id)]
      [] kind = "time" ->
            [value |-> NumV(id),
             number_format |-> (IF id % 2 = 0 THEN <<"H">> ELSE <<"0", ":">>) \o Digits(id)]
      [] kind = "currency" ->
            [value |-> NumV(id),
             number_format |-> (IF id % 2 = 0 THEN <<"$">> ELSE <<"R", "M">>) \o Digits(id)]
      [] OTHER ->
            [value |-> IF id % 2 = 0 THEN NoneV ELSE NumV(0), number_format |-> General]

\* a sheet of m cells: one row ("wide") or one column ("tall")
ASheet(kind, layout, m, first) ==
    IF layout = "wide"
    THEN <<[j \in 1..m |-> ACell(kind, first + j)]>>
    ELSE [j \in 1..m |-> <<ACell(kind, first + j)>>]

ABook(kind, layout, ns, m, sampling) ==
    [raises |-> FALSE, sampling |-> sampling,
     sheets |-> [n \in 1..ns |-> ASheet(kind, layout, m, (n - 1) * m)]]

\* the calls: small workbooks with a small max_items, sampled ones, one with
\* more than SUB_CAP distinct values per kind under the default max_items,
\* and one on which the analysis raises
AnalyzeCalls ==
    {[book |-> ABook(kind, layout, ns, m, FALSE), max_items |-> mi] :
        kind \in Kinds, layout \in Layouts, ns \in 1..2,
        m \in 1..(SmallMaxItems + 2), mi \in 0..SmallMaxItems}
    \cup
    {[book |-> ABook(kind, layout, 1, SmallMaxItems + 1, TRUE), max_items |-> SmallMaxItems] :
        kind \in Kinds, layout \in Layouts}
    \cup
    {[book |-> ABook(kind, layout, 1, SUB_CAP + 1, FALSE), max_items |-> DEFAULT_MAX_ITEMS] :
        kind \in Kinds, layout \in Layouts}
    \cup
    {[book |-> [ABook("text", "wide", 1, 1, FALSE) EXCEPT !.raises = TRUE],
      max_items |-> DEFAULT_MAX_ITEMS]}

AnalyzeInit ==
    /\ \E c \in AnalyzeCalls : book = c.book /\ max_items = c.max_items
    /\ apc = "start"
    /\ asheet = 0
    /\ todo = <<>>
    /\ actx = EmptyContext
    /\ aresult = <<>>
    /\ SheetUnused
    /\ PoolUnused

(* The function *)

\* a limit test that always finds room
HasRoom_Always(n, cap) == TRUE

\* len(context[...]) < cap
HasRoom(n, cap) == n < cap

\* context[key].add(x) under its limit test and its condition
AddIf(set, cap, cond, x) ==
    IF HasRoom(Cardinality(set), cap) /\ cond THEN set \cup {x} ELSE set

\* the count of a repeated term: a new key, or one more for a key
CountTerm(terms, value) ==
    IF Len(value) > 1 /\ Len(value) <= TERM_MAX_LEN /\ HasRoom(Len(terms), max_items)
    THEN IF \E k \in 1..Len(terms) : terms[k].term = value
         THEN [k \in 1..Len(terms) |->
                  IF terms[k].term = value
                  THEN [terms[k] EXCEPT !.count = @ + 1] ELSE terms[k]]
         ELSE Append(terms, [term |-> value, count |-> 1])
    ELSE terms

\* the body of the cell loop for a truthy cell that the sampling lets through
VisitCell(ctx, c) ==
    LET value == PyStr(c.value)
        f == c.number_format
        fmt == f # <<>>
    IN [ctx EXCEPT
          !.formulas = AddIf(@, max_items, value # <<>> /\ Head(value) = "=",
                             SubSeq(value, 1, Min(FORMULA_MAX_LEN, Len(value)))),
          !.bullet_types = AddIf(@, SUB_CAP, StartsWithBullet(value), Head(value)),
          !.dates = AddIf(@, SUB_CAP, fmt /\ IsDateFormat(f), f),
          !.times = AddIf(@, SUB_CAP, fmt /\ IsTimeFormat(f), f),
          !.currencies = AddIf(@, SUB_CAP, fmt /\ IsCurrencyFormat(f), f),
          !.cell_formats = AddIf(@, max_items, fmt /\ f # General, f),
          !.repeated_terms = CountTerm(@, value)]

\* the sequences of k different elements of S
RECURSIVE Arrangements(_, _)
Arrangements(S, k) ==
    IF k = 0 THEN {<<>>}
    ELSE UNION {{Append(a, x) : x \in S \ {a[j] : j \in 1..Len(a)}} :
                  a \in Arrangements(S, k - 1)}

\* the rows that the cell loop visits: all of them in order, or under
\* sampling random.sample(rows, int(len(rows) * sampling_rate)) for a rate
\* from 0.1 up to (not including) 1
RowChoices(rows) ==
    IF ~book.sampling THEN {[r \in 1..Len(rows) |-> r]}
    ELSE IF rows = <<>> THEN {<<>>}
    ELSE UNION {Arrangements(1..Len(rows), k) : k \in (Len(rows) \div 10)..(Len(rows) - 1)}

\* the cells of rows in the order of picked
RECURSIVE CellsOfRows(_, _)
CellsOfRows(rows, picked) ==
    IF picked = <<>> THEN <<>>
    ELSE rows[Head(picked)] \o CellsOfRows(rows, Tail(picked))

\* sorted(..., key=count, reverse=True): stable, so equal counts keep their order
RECURSIVE SortDesc(_)
SortDesc(terms) ==
    IF terms = <<>> THEN <<>>
    ELSE LET rest == SortDesc(SubSeq(terms, 1, Len(terms) - 1))
             t == terms[Len(terms)]
             before == SelectSeq(rest, LAMBDA u : u.count >= t.count)
             after == SelectSeq(rest, LAMBDA u : u.count < t.count)
         IN before \o <<t>> \o after

\* list(set)[:n]: the order of a set is not fixed, so any n of its elements
Truncated(S, n) == {T \in SUBSET S : Cardinality(T) = Min(n, Cardinality(S))}

\* the count of the cells; when the analysis raises, the handler at the end
\* returns the empty context; otherwise the loop over the sheets starts
AnalyzeStart ==
    /\ apc = "start"
    /\ IF book.raises
       THEN /\ aresult' = EmptyContext
            /\ apc' = "returned"
            /\ UNCHANGED asheet
       ELSE /\ asheet' = 1
            /\ apc' = "headers"
            /\ UNCHANGED aresult
    /\ UNCHANGED <<sheetVars, poolVars, book, max_items, todo, actx>>

\* one sheet: the headers of its first row, the row headers of its first
\* column, and the rows for the cell loop
SheetHeaders ==
    /\ apc = "headers"
    /\ LET rows == book.sheets[asheet]
           first == SubSeq(rows[1], 1, Min(max_items, Len(rows[1])))
           top == SubSeq(rows, 1, Min(max_items, Len(rows)))
       IN /\ \E picked \in RowChoices(rows) : todo' = CellsOfRows(rows, picked)
          /\ actx' = [actx EXCEPT
                !.headers = @ \cup {PyStr(first[k].value) :
                                      k \in {k \in 1..Len(first) : Truthy(first[k].value)}},
                !.row_headers = @ \cup {PyStr(top[r][1].value) :
                                      r \in {r \in 1..Len(top) : Truthy(top[r][1].value)}}]
    /\ apc' = "cells"
    /\ UNCHANGED <<sheetVars, poolVars, book, max_items, asheet, aresult>>

\* one cell of the cell loop; under sampling random.random() can skip it
InspectCell ==
    /\ apc = "cells"
    /\ todo # <<>>
    /\ \E through \in (IF book.sampling THEN BOOLEAN ELSE {TRUE}) :
          actx' = IF Truthy(Head(todo).value) /\ through
                  THEN VisitCell(actx, Head(todo)) ELSE actx
    /\ todo' = Tail(todo)
    /\ UNCHANGED <<sheetVars, poolVars, book, max_items, apc, asheet, aresult>>

\* the end of the cell loop of a sheet
NextSheet ==
    /\ apc = "cells"
    /\ todo = <<>>
    /\ IF asheet < Len(book.sheets)
       THEN asheet' = asheet + 1 /\ apc' = "headers"
       ELSE asheet' = asheet /\ apc' = "finish"
    /\ UNCHANGED <<sheetVars, poolVars, book, max_items, todo, actx, aresult>>

\* the repeated terms filtered, sorted and cut, and every set as a list cut
\* to max_items
AnalyzeReturns ==
    /\ apc = "finish"
    /\ LET kept == SortDesc(SelectSeq(actx.repeated_terms, LAMBDA t : t.count > 1))
       IN \E h \in Truncated(actx.headers, max_items),
             rh \in Truncated(actx.row_headers, max_items),
             d \in Truncated(actx.dates, max_items),
             t \in Truncated(actx.times, max_items),
             fo \in Truncated(actx.formulas, max_items),
             cu \in Truncated(actx.currencies, max_items),
             b \in Truncated(actx.bullet_types, max_items),
             cf \in Truncated(actx.cell_formats, max_items) :
               aresult' = [headers |-> h, row_headers |-> rh, dates |-> d, times |-> t,
                           formulas |-> fo, currencies |-> cu, bullet_types |-> b,
                           repeated_terms |-> SubSeq(kept, 1, Min(max_items, Len(kept))),
                           cell_formats |-> cf]
    /\ apc' = "returned"
    /\ UNCHANGED <<sheetVars, poolVars, book, max_items, asheet, todo, actx>>

AnalyzeNext ==
    \/ AnalyzeStart
    \/ SheetHeaders
    \/ InspectCell
    \/ NextSheet
    \/ AnalyzeReturns

AnalyzeSpec == AnalyzeInit /\ [][AnalyzeNext]_vars

----------------------------------------------------------------------------
(* The claims *)

Finished == pc \in {"finished", "saved"}
CellIds == 1..NCells
SrcValue(k) == sheet.cells[k].value
DstValue(k) == new_cells[k].value
\* the style read from the destination sheet (the default where no cell exists)
DstStyle(k) == new_cells[k].style
IsString(k) == SrcValue(k).t = "str"
HasSeparator(s) == \E k \in 1..Len(s) : s[k] = MARK

(* C1: whenever batch_translate has returned, whatever the backend answered,
   its result has as many entries as its argument texts. *)
C1_ResultLengthEqualsTexts ==
    ret.returned => Len(ret.result) = Len(ret.texts)

(* C2: when process_excel has completed and no backend request was ever
   answered, every string cell of the sheet holds its input value in the
   output. *)
C2_TotalFallbackKeepsInput ==
    (pc = "saved" /\ ~okSeen) =>
        \A k \in CellIds : IsString(k) => DstValue(k) = SrcValue(k)

\* the texts that the backend can resolve for string s, as the code returns them
Resolved(s) == {StrV(Strip(r)) : r \in WellFormed(s)}

(* C3: after process_sheet, every cell that holds a translatable string has
   been given a value in the destination, and that value is a text resolved
   for the cell's own string or the cell's original text. *)
C3_EveryTranslatableCellResolved ==
    Finished =>
        \A k \in CellIds :
            (~IsMergedCell(sheet.cells[k]) /\ NeedsTranslation(SrcValue(k))) =>
                /\ new_cells[k].assigned
                /\ DstValue(k) \in Resolved(SrcValue(k).s) \cup {SrcValue(k)}

(* C4: after process_sheet with every request answered well formed, every
   translatable string of the sheet was carried by exactly one backend
   request (stated for the strings without the separator, for which a
   well-formed answer is unambiguous). *)
C4_OneRequestPerString ==
    (Finished /\ ~badSeen) =>
        \A k \in CellIds :
            (NeedsTranslation(SrcValue(k)) /\ ~HasSeparator(SrcValue(k).s)) =>
                nreq[SrcValue(k)] = 1

(* C5: after process_sheet, two cells of the sheet that hold the same string
   hold the same output value. *)
C5_SameStringSameOutput ==
    Finished =>
        \A i, j \in CellIds :
            (IsString(i) /\ SrcValue(i) = SrcValue(j)) => DstValue(i) = DstValue(j)

IsFormula(k) == IsString(k) /\ SrcValue(k).s # <<>> /\ Head(SrcValue(k).s) = "="

(* C6: a cell whose string begins with "=" is never carried by a backend
   request, and after process_sheet its output value is its input value. *)
C6_FormulaPassthrough ==
    \A k \in CellIds :
        IsFormula(k) =>
            /\ k \notin sentCells
            /\ Finished => DstValue(k) = SrcValue(k)

\* a string of digits and ".", "/", "-" only, or a numeric string
IsNumericToken(k) ==
    IsString(k) /\ (IsNumberOrDate(SrcValue(k).s) \/ is_numeric_string(SrcValue(k)))

(* C7: a cell whose string holds only digits and ".", "/", "-", or a numeric
   string such as 1,234.56, is never carried by a backend request, and after
   process_sheet its output value is its input value. *)
C7_NumericTokenPassthrough ==
    \A k \in CellIds :
        IsNumericToken(k) =>
            /\ k \notin sentCells
            /\ Finished => DstValue(k) = SrcValue(k)

(* C8, as stated: no backend request carries the value of a cell that is not
   a string, neither as its text nor in its context block, and after
   process_excel such a cell's output value is its input value. *)
C8_NonStringNeverInRequest ==
    \A k \in CellIds :
        ~IsString(k) =>
            /\ k \notin sentCells
            /\ k \notin ctxCells
            /\ pc = "saved" => DstValue(k) = SrcValue(k)

(* C8, amended: no backend request carries the value of a cell that is not a
   string as the text to translate, and after process_excel such a cell's
   output value is its input value. *)
C8_NonStringNeverTranslated ==
    \A k \in CellIds :
        ~IsString(k) =>
            /\ k \notin sentCells
            /\ pc = "saved" => DstValue(k) = SrcValue(k)

\* the run is over, requests were answered, and the sheet holds a number that
\* no request carried as text although the context of a request carried it
C8_Witness ==
    /\ pc = "saved"
    /\ okSeen
    /\ \E k \in CellIds : SrcValue(k) = NumV(7) /\ k \in ctxCells /\ DstValue(k) = NumV(7)

(* C9: after process_sheet, every cell of the source sheet, the non-anchor
   members of a merge range included, has its style in the destination. *)
C9_EveryStyleCopied ==
    Finished => \A k \in CellIds : DstStyle(k) = sheet.cells[k].style

(* C10: after process_excel the merge ranges of the destination sheet are
   those of the source sheet, and no non-anchor member of a merge range is
   ever assigned a value. *)
C10_MergeRangesPreserved ==
    /\ pc = "saved" => new_merged = sheet.merged
    /\ \A k \in CellIds : IsMergedCell(sheet.cells[k]) => ~new_cells[k].assigned

\* the run is over for a sheet with a merge range, after requests that were
\* answered and requests that failed
C10_Witness ==
    /\ pc = "saved"
    /\ sheet.merged # {}
    /\ okSeen /\ badSeen
    /\ \E k \in CellIds : IsMergedCell(sheet.cells[k]) /\ ~new_cells[k].exists

----------------------------------------------------------------------------
(* The claims about the retries of the translation *)

\* C16: a batch whose combined response is empty or splits into a number of
\* segments other than the number of unique strings is sent again as a whole
\* before any string is translated individually: the individual fallback
\* starts only after the third combined request.
C16_PartialFailureResendsBatch ==
    [][(call.mode = "batch" /\ call'.mode = "indiv") =>
          call.attempt + 1 = MAX_RETRIES]_vars

\* C17: when none of the combined requests of a batch got a response, the
\* strings of the batch go through the individual fallback before
\* batch_translate returns.
C17_TotalFailureFallsBack ==
    (ret.returned /\ ~ret.answered) => ret.individual

\* C18: in the individual fallback the request that is due for a string is at
\* most the third one for that string, and the results collected so far are
\* those of the strings before it, each at its own position.
C18_IndividualBudget ==
    (pc = "translate" /\ call.mode = "indiv") =>
        /\ call.ureq < 3
        /\ Len(call.final) = call.idx - 1

BulletCells ==
    {k \in CellIds : IsString(k) /\ SrcValue(k).s # <<>>
                     /\ Head(SrcValue(k).s) \in BulletMarkers
                     /\ NeedsTranslation(SrcValue(k))}

\* C20: the text of a cell that starts with a bullet marker is not sent with
\* its marker, and the cell's output is the marker, a space and the
\* translation of the rest.
C20_BulletMarkerKept ==
    \A k \in BulletCells :
        /\ k \notin sentCells
        /\ (Finished /\ new_cells[k].assigned) =>
              /\ DstValue(k).t = "str"
              /\ Len(DstValue(k).s) >= 2
              /\ SubSeq(DstValue(k).s, 1, 2) = <<Head(SrcValue(k).s), " ">>

----------------------------------------------------------------------------
(* The claims about the pool of sheet tasks and the retries of an upload *)

AllSheets == 1..Len(names)
InFlight == {i \in AllSheets : task[i].state = "requesting"}
Raised == {i \in AllSheets : task[i].state = "raised"}

\* C11: the destination workbook has the names of the source workbook in the
\* same order, whatever the order in which the sheet tasks complete: at any
\* time new_wb.sheetnames is the start of workbook.sheetnames, and it is all
\* of it when the workbook is saved and returned.
C11_SheetOrderPreserved ==
    /\ Len(new_names) <= Len(names)
    /\ new_names = SubSeq(names, 1, Len(new_names))
    /\ xpc \in {"save", "returned"} => new_names = names

\* a workbook returned after a task completed before the task of an earlier sheet
C11_Witness == xpc = "returned" /\ outOfOrder /\ Len(names) >= 3

\* C12: a sheet task that raises leaves the other tasks alone, all of them
\* have run (once) to their end when the workbook is saved, and process_excel
\* raises only because load_workbook or save raised.
C12_SheetFailureIsolated ==
    /\ xpc = "raised" => cause \in {"load", "save"}
    /\ xpc \in {"save", "returned"} =>
          \A i \in AllSheets : i \in Ended /\ task[i].runs = 1

\* C13: at most min(4, number of sheets) sheet tasks run at any time, no
\* sheet is taken by a worker twice, and the requests in flight are those of
\* running tasks, one per task, so at most 4.
C13_BoundedConcurrency ==
    /\ Cardinality(Busy) <= Min(4, Len(names))
    /\ \A i \in AllSheets :
          /\ task[i].runs <= 1
          /\ i \in Busy \cup Ended => task[i].runs = 1
    /\ InFlight \subseteq Busy
    /\ Cardinality(InFlight) <= 4

\* four requests in flight while a fifth sheet waits for a worker
C13_Witness ==
    /\ Cardinality(InFlight) = 4
    /\ \E i \in AllSheets : task[i].state = "queued"

\* C15: process_excel is called at most MAX_RETRIES times for an upload; a
\* call that raised is followed by another one while fewer than three have
\* raised; the file is sent after the first call that returned and no call
\* follows it; the error response is sent after exactly three calls raised.
C15_UploadRetries ==
    /\ invocations <= MAX_RETRIES
    /\ failures <= invocations
    /\ (xpc = "raised" /\ failures < MAX_RETRIES) =>
          response = "none" /\ ENABLED RetryUpload
    /\ xpc = "returned" => invocations = failures + 1 /\ ~ENABLED RetryUpload
    /\ response = "file" => xpc = "returned"
    /\ response = "500" =>
          xpc = "raised" /\ failures = MAX_RETRIES /\ invocations = MAX_RETRIES

\* the file is sent by the third call of process_excel
C15_Witness == response = "file" /\ failures = 2 /\ invocations = 3

----------------------------------------------------------------------------
(* The claims about analyze_excel_structure *)

\* the cells of the workbook
BookCells ==
    UNION {UNION {{book.sheets[n][r][k] : k \in 1..Len(book.sheets[n][r])} :
                     r \in 1..Len(book.sheets[n])} : n \in 1..Len(book.sheets)}
\* the number formats of the workbook that read as dates
BookDateFormats ==
    {c.number_format : c \in {c \in BookCells : IsDateFormat(c.number_format)}}

\* C14: the context that analyze_excel_structure(workbook, max_items) returns
\* has at most max_items headers, row headers, formulas, cell formats and
\* repeated terms, and at most 10 dates, times, currencies and bullet types.
C14_ContextWithinCaps ==
    apc = "returned" =>
        /\ Cardinality(aresult.headers) <= max_items
        /\ Cardinality(aresult.row_headers) <= max_items
        /\ Cardinality(aresult.formulas) <= max_items
        /\ Cardinality(aresult.cell_formats) <= max_items
        /\ Len(aresult.repeated_terms) <= max_items
        /\ Cardinality(aresult.dates) <= 10
        /\ Cardinality(aresult.times) <= 10
        /\ Cardinality(aresult.currencies) <= 10
        /\ Cardinality(aresult.bullet_types) <= 10

\* a workbook with more than 10 date formats analysed under the default
\* max_items: 10 dates are returned
C14_Witness ==
    /\ apc = "returned"
    /\ max_items = DEFAULT_MAX_ITEMS
    /\ Cardinality(BookDateFormats) > 10
    /\ Cardinality(aresult.dates) = 10

\* the positions <<sheet, row, column>> of the cells of the workbook
BookPositions ==
    UNION {UNION {{<<n, r, k>> : k \in 1..Len(book.sheets[n][r])} :
                     r \in 1..Len(book.sheets[n])} : n \in 1..Len(book.sheets)}
\* the number of truthy cells whose value reads as the string term: when
\* every cell is inspected, the number of inspected cells that hold it
Holding(term) ==
    Cardinality({p \in BookPositions :
                    LET c == book.sheets[p[1]][p[2]][p[3]]
                    IN Truthy(c.value) /\ PyStr(c.value) = term})

\* C22: without sampling, after the cell loops the count kept for every
\* tracked string equals the number of inspected cells that hold it, also
\* once max_items keys are tracked; so the returned repeated_terms holds
\* every tracked string inspected at least twice, only entries with a count
\* above 1, and these in descending order of count.
C22_TermCountsExact ==
    (apc \in {"finish", "returned"} /\ ~book.sampling /\ ~book.raises) =>
        /\ \A i \in 1..Len(actx.repeated_terms) :
              actx.repeated_terms[i].count = Holding(actx.repeated_terms[i].term)
        /\ apc = "returned" =>
              /\ \A i \in 1..Len(actx.repeated_terms) :
                    Holding(actx.repeated_terms[i].term) >= 2 =>
                       \E j \in 1..Len(aresult.repeated_terms) :
                          aresult.repeated_terms[j].term = actx.repeated_terms[i].term
              /\ \A j \in 1..Len(aresult.repeated_terms) :
                    aresult.repeated_terms[j].count > 1
              /\ \A j \in 1..(Len(aresult.repeated_terms) - 1) :
                    aresult.repeated_terms[j].count >= aresult.repeated_terms[j + 1].count

----------------------------------------------------------------------------
(* The claim about the quotes around an answer *)

\* text wrapped in a leading or a trailing quote character
Wrapped(text) == text # <<>> /\ (Head(text) = QUOTE \/ text[Len(text)] = QUOTE)

\* C23: the text that translate_with_context resolves from a quoted answer
\* is the answer without its leading and trailing quote characters; and no
\* value written to a cell from the backend's answers begins or ends with a
\* quote character (no string of the sheet holds one).
C23_QuotesStripped ==
    /\ (twc.answered /\ twc.response \in Quoted(twc.text)) =>
           twc.value \in WellFormed(twc.text)
    /\ \A k \in sentCells :
           (new_cells[k].assigned /\ DstValue(k).t = "str") => ~Wrapped(DstValue(k).s)

----------------------------------------------------------------------------
(* The claim about the order of the copies within one sheet *)

\* the sheet-level attributes that process_excel and process_sheet copy
SheetAttributes ==
    {"sheet_format", "sheet_properties", "column_dimensions", "row_dimensions"}

\* the positions in the write order of destination cell k where w was set
WritesOf(k, w) ==
    {i \in 1..Len(new_cells[k].writes) : new_cells[k].writes[i] = w}

\* C21: once a destination cell exists, the sheet format and properties, the
\* row and column dimensions and the merge ranges are already on the
\* destination sheet; and on every destination cell the creation comes first
\* and the style of a styled source cell is copied before the value is
\* assigned, never after it.
C21_StructureBeforeCells ==
    \A k \in CellIds :
        new_cells[k].exists =>
            /\ SheetAttributes \subseteq new_meta
            /\ new_merged = sheet.merged
            /\ new_cells[k].writes[1] = "cell"
            /\ new_cells[k].assigned => WritesOf(k, "value") # {}
            /\ \A i \in WritesOf(k, "value") :
                  /\ HasStyle(sheet.cells[k]) =>
                         \E j \in WritesOf(k, "style") : j < i
                  /\ \A j \in WritesOf(k, "style") : j < i

\* a saved sheet with merge ranges, a styled cell whose value came from the
\* backend after the cell loop, and a cell whose value was copied in the loop
C21_Witness ==
    /\ pc = "saved"
    /\ sheet.merged # {}
    /\ new_merged = sheet.merged
    /\ SheetAttributes \subseteq new_meta
    /\ \E k \in sentCells :
          /\ HasStyle(sheet.cells[k])
          /\ new_cells[k].writes = <<"cell", "style", "value">>
          /\ DstValue(k) # SrcValue(k)
    /\ \E k \in CellIds \ sentCells :
          /\ ~NeedsTranslation(SrcValue(k))
          /\ new_cells[k].writes[Len(new_cells[k].writes)] = "value"

====
